---- MODULE Spec2Model ----
(***************************************************************************)
(* A model of the ingestion coordinator, the vector store and the crawler  *)
(* of brandgpt:                                                            *)
(*   brandgpt/ingestion/pipeline.py      IngestionPipeline                 *)
(*   brandgpt/core/vector_store.py       VectorStore                       *)
(*   brandgpt/retrieval/rag_graph.py     RAGGraph (retrieve stage)         *)
(*   brandgpt/ingestion/url_processor.py URLScraper, URLProcessor          *)
(*   brandgpt/core/reranker.py           Reranker                          *)
(*   brandgpt/retrieval/rag_graph.py     RAGGraph (all stages)             *)
(* Several specifications share the module: SpecIngest, SpecStore,         *)
(* SpecCrawl, SpecRerank and SpecRag.  Each one moves its own variables    *)
(* and leaves the others at their initial value.                           *)
(***************************************************************************)
EXTENDS Integers, Sequences, FiniteSets, TLC

VARIABLES
    \* ---- ingestion coordinator (pipeline.py), one entry per document id
    doc,        \* the call's arguments: [kind, suffix, content, exists, max_depth]
    pc,         \* position of the background task that ingests the document
    status,     \* Document.processed as committed in the database
    errmsg,     \* Document.error_message as committed in the database
    exc,        \* the exception in flight in the task ("none" when there is none)
    stepExc,    \* the exception a processing step of this ingestion raised first
    chunks,     \* what the processor returned: "none", "documents", "strings"
    indexed,    \* add_documents returned normally for this document
    tmpfile,    \* the temporary upload file still exists
    processor,  \* the processor the task handed the document to ("none": not yet)
    scraper,    \* the URLScraper the URL processor built for the document, if any
    \* ---- vector store (vector_store.py) and the retrieve stage (rag_graph.py)
    points,     \* the points in the collection, each with the call that upserted it
    lastQuery,  \* the user_id, the filter and the hits of the last process_query
    \* ---- crawler (url_processor.py), one URLScraper.scrape run
    start_url,          \* scrape's argument
    max_depth,          \* URLScraper.max_depth
    max_links_per_page, \* URLScraper.max_links_per_page
    to_visit,           \* the frontier, a sequence of [url, depth]
    visited_urls,       \* URLScraper.visited_urls
    content,            \* URLScraper.content, the page records collected
    requested,          \* every session.get issued, in order: [url, depth]
    web,                \* the pages served so far: page -> [ok links text] or Unknown
    cpc,                \* "loop" while scrape runs, "returned" after line 125
    \* ---- retrieval (settings.py, reranker.py, rag_graph.py)
    config,     \* the settings the retrieval reads: reranker_enabled, reranker_top_k
    rr,         \* one Reranker.rerank call: its arguments, the scores, its result
    rag,        \* one process_query call: the RAGState, the stage, the result
    \* ---- single calls of the processors and the crawl worker
    jp,         \* one EnhancedJSONProcessor.process call: chunk lengths in and out
    conv,       \* one conversion of page records to chunks in URLProcessor.process
    pool        \* URLProcessor.executor: the crawls submitted, running and done

ingestVars == <<doc, pc, status, errmsg, exc, stepExc, chunks, indexed, tmpfile,
                processor, scraper>>
storeVars  == <<points, lastQuery>>
crawlVars  == <<start_url, max_depth, max_links_per_page, to_visit, visited_urls,
                content, requested, web, cpc>>
ragVars    == <<config, rr, rag>>
unitVars   == <<jp, conv, pool>>
vars == <<ingestVars, storeVars, crawlVars, ragVars, unitVars>>

(***************************************************************************)
(* Bounds of the model.                                                    *)
(***************************************************************************)
NumDocs == 1
NumVals == 2
MaxPoints == 2
NumHosts == 2
NumPaths == 2
MaxLinksOnPage == 2
MaxDepthArg == 3
MaxLinksArg == 2
MaxRerankDocs == 3
NumScores == 3
MaxTopK == 3
MaxChunkSize == 2
MaxStructured == 2
MaxPieces == 2
NumJobs == 2

Docs == 1..NumDocs

(***************************************************************************)
(* ======================  INGESTION COORDINATOR  =======================  *)
(***************************************************************************)

\* How process_file_from_path routes a file (by the filename's suffix), or
\* "url" for a document handed to process_url.
Kinds == {"pdf", "json", "text", "url"}

\* Whether json.loads accepts the file's content.
Contents == {"valid_json", "invalid_json"}

\* The end of the uploaded file's name; "none" for a document of ingest_url.
Suffixes == {".pdf", ".PDF", ".json", ".txt", "none"}

\* str.lower() on these suffixes.
Lower(suffix) == IF suffix = ".PDF" THEN ".pdf" ELSE suffix

\* Lines 50, 57, 66: the branch process_file_from_path takes for a filename.
KindOf(suffix) ==
    CASE suffix = "none" -> "url"
      [] Lower(suffix) = ".pdf" -> "pdf"
      [] Lower(suffix) = ".json" -> "json"
      [] OTHER -> "text"

\* api/main.py lines 182 and 242: the content_type ingest_file and ingest_url
\* record on the Document row.
ContentTypeOf(suffix) ==
    CASE suffix = "none" -> "url"
      [] suffix = ".pdf" -> "pdf"
      [] OTHER -> "text"

\* Python's None: the default of search's and process_query's user_id and of
\* DocumentUpload.max_depth.
PyNone == -1

\* api/schemas.py lines 66-71: the max_depth of a URL request, None when the
\* request omits it.
RequestDepths == {PyNone} \cup (1..MaxDepthArg)

\* The uploads and URL submissions the API can hand to the coordinator; an
\* upload has no max_depth.
Submissions ==
    {r \in [kind: Kinds, suffix: Suffixes, content: Contents, exists: BOOLEAN,
            max_depth: RequestDepths] :
        /\ r.kind = KindOf(r.suffix)
        /\ r.kind # "url" => r.max_depth = PyNone}

\* No URLScraper was built.
NoScraper == [started |-> FALSE]

\* pipeline.py lines 139-144 with url_processor.py lines 140 and 145:
\* process_url always puts the key max_depth into the metadata, so
\* metadata.get('max_depth', ...) is the request's value, None included, and
\* the URLScraper is built with it.
ScraperFor(d) == [started |-> TRUE, max_depth |-> d.max_depth]

\* Lines 52, 61, 76-80 (147): the processor a branch hands the document to.
ProcessorOf(d) ==
    CASE d.kind = "pdf" -> "pdf_processor"
      [] d.kind = "json" -> "json_processor"
      [] d.kind = "text" ->
            IF d.content = "valid_json" THEN "json_processor" ELSE "text_processor"
      [] d.kind = "url" -> "url_processor"

\* The fields the Settings class declares that the URL processor reads.
SettingsFields == {"max_scrape_depth", "download_delay", "chunk_size", "chunk_overlap"}

\* Where an exception raised after the status became "processing" goes first:
\* process_file_from_path runs the inner finally (os.unlink), process_url has
\* no inner try and goes straight to its except clause.
OnException(k) == IF k = "url" THEN "handler" ELSE "cleanup"

\* The outcomes of the routing / extraction / chunking step for a document:
\* <<"documents">> or <<"strings">> when the processor returns chunks,
\* <<"raise", e>> when it raises e.
RouteOutcomes(d) ==
    CASE d.kind = "pdf" ->
            {<<"documents">>, <<"raise", "pdf_processor">>}
      [] d.kind = "json" ->
            {<<"raise", "read">>}
            \cup (IF d.content = "valid_json"
                  THEN {<<"documents">>, <<"raise", "json_processor">>}
                  ELSE {<<"strings">>})
      [] d.kind = "text" ->
            {<<"raise", "read">>}
            \cup (IF d.content = "valid_json"
                  THEN {<<"documents">>, <<"raise", "json_processor">>}
                  ELSE {<<"documents">>, <<"raise", "text_processor">>})
      [] d.kind = "url" ->
            IF "max_links_per_page" \in SettingsFields
            THEN (IF d.max_depth = PyNone
                  THEN {<<"raise", "type_error">>}
                  ELSE {<<"documents">>, <<"raise", "scrape">>})
            ELSE {<<"raise", "settings_attribute">>}

\* The outcomes of VectorStore.add_documents for the chunks handed to it.
IndexOutcomes(c) ==
    IF c = "strings"
    THEN {"page_content_attribute"}
    ELSE {"ok", "embed", "upsert"}

\* vector_store.py lines 76-78 without the raise: the error is only logged.
AddDocumentsSwallows(r) == FALSE

\* vector_store.py lines 76-78: add_documents logs and re-raises whatever the
\* embedding or the upsert raised.
AddDocumentsRaises(r) == r # "ok"

IngestInit ==
    /\ doc \in [Docs -> Submissions]
    /\ pc = [d \in Docs |-> "start"]
    /\ status = [d \in Docs |-> "pending"]
    /\ errmsg = [d \in Docs |-> "none"]
    /\ exc = [d \in Docs |-> "none"]
    /\ stepExc = [d \in Docs |-> "none"]
    /\ chunks = [d \in Docs |-> "none"]
    /\ indexed = [d \in Docs |-> FALSE]
    /\ tmpfile = [d \in Docs |-> doc[d].kind # "url"]
    /\ processor = [d \in Docs |-> "none"]
    /\ scraper = [d \in Docs |-> NoScraper]

\* The task raises e at this point: control goes to `target`.
Raise(d, e, target) ==
    /\ exc' = [exc EXCEPT ![d] = e]
    /\ pc' = [pc EXCEPT ![d] = target]

\* Lines 36-41 (132-137): look the document up, return when it is missing,
\* else set "processing" and commit.
Begin(d) ==
    /\ pc[d] = "start"
    /\ IF ~doc[d].exists
       THEN /\ pc' = [pc EXCEPT ![d] = "done"]
            /\ UNCHANGED <<status, exc>>
       ELSE \E commit_ok \in BOOLEAN :
              IF commit_ok
              THEN /\ status' = [status EXCEPT ![d] = "processing"]
                   /\ pc' = [pc EXCEPT ![d] = "route"]
                   /\ UNCHANGED exc
              ELSE /\ Raise(d, "commit", "handler")
                   /\ UNCHANGED status
    /\ UNCHANGED <<doc, errmsg, stepExc, chunks, indexed, tmpfile, processor, scraper>>
    /\ UNCHANGED <<storeVars, crawlVars, ragVars, unitVars>>

\* Lines 50-80 (147): the processor chosen by the filename produces the chunks.
Route(d) ==
    /\ pc[d] = "route"
    /\ \E r \in RouteOutcomes(doc[d]) :
         /\ processor' = [processor EXCEPT ![d] =
                            IF r = <<"raise", "read">> THEN @ ELSE ProcessorOf(doc[d])]
         /\ scraper' = [scraper EXCEPT ![d] =
                          IF doc[d].kind = "url" /\ r # <<"raise", "settings_attribute">>
                          THEN ScraperFor(doc[d]) ELSE @]
         /\ IF r[1] = "raise"
            THEN /\ Raise(d, r[2], OnException(doc[d].kind))
                 /\ stepExc' = [stepExc EXCEPT ![d] = r[2]]
                 /\ UNCHANGED chunks
            ELSE /\ chunks' = [chunks EXCEPT ![d] = r[1]]
                 /\ pc' = [pc EXCEPT ![d] = "index"]
                 /\ UNCHANGED <<exc, stepExc>>
    /\ UNCHANGED <<doc, status, errmsg, indexed, tmpfile>>
    /\ UNCHANGED <<storeVars, crawlVars, ragVars, unitVars>>

\* Lines 55, 64, 83 (150): await self.vector_store.add_documents(chunks, ...).
AddDocumentsCall(d) ==
    /\ pc[d] = "index"
    /\ \E r \in IndexOutcomes(chunks[d]) :
         /\ indexed' = [indexed EXCEPT ![d] = (r = "ok")]
         /\ IF AddDocumentsRaises(r)
            THEN /\ Raise(d, r, OnException(doc[d].kind))
                 /\ stepExc' = [stepExc EXCEPT ![d] = r]
            ELSE /\ pc' = [pc EXCEPT ![d] = "complete"]
                 /\ UNCHANGED <<exc, stepExc>>
    /\ UNCHANGED <<doc, status, errmsg, chunks, tmpfile, processor, scraper>>
    /\ UNCHANGED <<storeVars, crawlVars, ragVars, unitVars>>

\* Lines 86-88 (153-155): set "completed" and commit.
MarkCompleted(d) ==
    /\ pc[d] = "complete"
    /\ \E commit_ok \in BOOLEAN :
         IF commit_ok
         THEN /\ status' = [status EXCEPT ![d] = "completed"]
              /\ pc' = [pc EXCEPT ![d] =
                          IF doc[d].kind = "url" THEN "done" ELSE "cleanup"]
              /\ UNCHANGED exc
         ELSE /\ Raise(d, "commit", OnException(doc[d].kind))
              /\ UNCHANGED status
    /\ UNCHANGED <<doc, errmsg, stepExc, chunks, indexed, tmpfile, processor, scraper>>
    /\ UNCHANGED <<storeVars, crawlVars, ragVars, unitVars>>

\* Lines 92-94: the inner finally deletes the temporary file.  An exception of
\* os.unlink replaces the one in flight.
Cleanup(d) ==
    /\ pc[d] = "cleanup"
    /\ \E unlink_ok \in BOOLEAN :
         IF unlink_ok
         THEN /\ tmpfile' = [tmpfile EXCEPT ![d] = FALSE]
              /\ pc' = [pc EXCEPT ![d] =
                          IF exc[d] = "none" THEN "done" ELSE "handler"]
              /\ UNCHANGED exc
         ELSE /\ Raise(d, "unlink", "handler")
              /\ UNCHANGED tmpfile
    /\ UNCHANGED <<doc, status, errmsg, stepExc, chunks, indexed, processor, scraper>>
    /\ UNCHANGED <<storeVars, crawlVars, ragVars, unitVars>>

\* Lines 96-102 (159-165): the except clause looks the document up again, sets
\* "failed" and the message and commits; a failing commit leaves the task.
ErrorHandler(d) ==
    /\ pc[d] = "handler"
    /\ \E commit_ok \in BOOLEAN :
         IF commit_ok
         THEN /\ status' = [status EXCEPT ![d] = "failed"]
              /\ errmsg' = [errmsg EXCEPT ![d] = exc[d]]
              /\ exc' = [exc EXCEPT ![d] = "none"]
              /\ pc' = [pc EXCEPT ![d] = "done"]
         ELSE /\ Raise(d, "commit", "raised")
              /\ UNCHANGED <<status, errmsg>>
    /\ UNCHANGED <<doc, stepExc, chunks, indexed, tmpfile, processor, scraper>>
    /\ UNCHANGED <<storeVars, crawlVars, ragVars, unitVars>>

IngestNext ==
    \E d \in Docs :
        \/ Begin(d)
        \/ Route(d)
        \/ AddDocumentsCall(d)
        \/ MarkCompleted(d)
        \/ Cleanup(d)
        \/ ErrorHandler(d)

(***************************************************************************)
(* ===========================  VECTOR STORE  ===========================  *)
(***************************************************************************)

\* User ids, session ids and chunk texts are drawn from the same small range.
Vals == 1..NumVals

\* The user_id values process_query and VectorStore.search accept: Optional[int].
UserIdArgs == {PyNone, 0} \cup Vals

\* Python's truth value of an Optional[int]: None and 0 are false.
Truthy(u) == u # PyNone /\ u # 0

\* The payload keys a chunk's metadata can also carry.
MetaKeys == {"text", "session_id", "user_id"}

\* A chunk's metadata: a mapping from some keys to values.
Metadatas == UNION {[K -> Vals] : K \in SUBSET MetaKeys}

\* A chunk: LangchainDocument(page_content, metadata).
ChunkDocs == [page_content: Vals, metadata: Metadatas]

\* Python's {**a, **b}: the keys of both, b's value where both have the key.
DictMerge(a, b) ==
    [k \in (DOMAIN a) \cup (DOMAIN b) |-> IF k \in DOMAIN b THEN b[k] ELSE a[k]]

\* Lines 53-58: the payload add_documents builds for one chunk.
Payload(chunk, session_id, user_id) ==
    DictMerge([text |-> chunk.page_content,
               session_id |-> session_id,
               user_id |-> user_id],
              chunk.metadata)

\* Lines 90-96: the query filter search builds, {} standing for None and
\* {u} for must-match user_id = u.
SearchFilter(user_id) == IF Truthy(user_id) THEN {user_id} ELSE {}

\* Lines 98-104: the points the collection may return under a filter.
Matching(filter) ==
    {p \in points : \A u \in filter : p.payload["user_id"] = u}

StoreInit ==
    /\ points = {}
    /\ lastQuery = [called |-> FALSE]

\* Lines 37-74: add_documents(documents, session_id, user_id) with one chunk;
\* each point remembers the call that upserted it (by_session, by_user, text).
AddDocuments ==
    /\ Cardinality(points) < MaxPoints
    /\ \E chunk \in ChunkDocs, session_id \in Vals, user_id \in Vals :
         LET point == [id |-> Cardinality(points) + 1,
                       payload |-> Payload(chunk, session_id, user_id),
                       by_session |-> session_id,
                       by_user |-> user_id,
                       text |-> chunk.page_content]
         IN points' = points \cup {point}
    /\ UNCHANGED lastQuery
    /\ UNCHANGED <<ingestVars, crawlVars, ragVars, unitVars>>

\* rag_graph.py lines 47-61 with vector_store.py lines 80-116: the retrieve
\* stage of process_query(query, user_id): one search, whose hits are some of
\* the points that match the filter.
Retrieve ==
    /\ \E user_id \in UserIdArgs :
         \E hits \in SUBSET Matching(SearchFilter(user_id)) :
            lastQuery' = [called |-> TRUE,
                          user_id |-> user_id,
                          filter |-> SearchFilter(user_id),
                          hits |-> hits]
    /\ UNCHANGED points
    /\ UNCHANGED <<ingestVars, crawlVars, ragVars, unitVars>>

StoreNext == AddDocuments \/ Retrieve

(***************************************************************************)
(* ==============================  CRAWLER  =============================  *)
(***************************************************************************)

Hosts == 1..NumHosts
Paths == 1..NumPaths

\* A URL: its network location, its path and its fragment (0: no fragment).
URLs == [host: Hosts, path: Paths, frag: {0, 1}]

\* An href of an <a> tag: relative to the page (host 0) or absolute.
Hrefs == [host: {0}, path: Paths, frag: {0, 1}]
         \cup {[host |-> h, path |-> 1, frag |-> 0] : h \in Hosts}

\* The page a server returns for a URL: the fragment is not part of the request.
PageOf(u) == <<u.host, u.path>>
Pages == Hosts \X Paths

\* What a page holds: the hrefs of its <a> tags in document order, and whether
\* its extracted text is non-empty after trimming.
LinkLists == UNION {[1..n -> Hrefs] : n \in 0..MaxLinksOnPage}
PageContents == [links: LinkLists, text: BOOLEAN]
Unknown == [links |-> <<>>, text |-> FALSE, unknown |-> TRUE]

\* urllib.parse.urljoin, urldefrag and urlparse(...).netloc on these URLs.
UrlJoin(base_url, href) ==
    [host |-> IF href.host = 0 THEN base_url.host ELSE href.host,
     path |-> href.path,
     frag |-> href.frag]
UrlDefrag(u) == [u EXCEPT !.frag = 0]
Netloc(u) == u.host

\* Line 77 with the same-domain test left out.
AnyDomain(full_url, base_url) == TRUE

\* Line 77: only links of the page's own network location are kept.
SameDomain(full_url, base_url) == Netloc(full_url) = Netloc(base_url)

RECURSIVE GetLinks(_, _)
\* Lines 67-80: _get_links(soup, base_url), in document order.
GetLinks(hrefs, base_url) ==
    IF hrefs = <<>> THEN <<>>
    ELSE LET full_url == UrlDefrag(UrlJoin(base_url, Head(hrefs)))
             rest == GetLinks(Tail(hrefs), base_url)
         IN IF SameDomain(full_url, base_url) THEN <<full_url>> \o rest ELSE rest

\* links[:n - 1]
PrefixOffByOne(seq, n) ==
    SubSeq(seq, 1, IF Len(seq) < n - 1 THEN Len(seq) ELSE n - 1)

\* links[:n]
Prefix(seq, n) == SubSeq(seq, 1, IF Len(seq) < n THEN Len(seq) ELSE n)

\* Line 92 with depths counted from 0.
InitialFrontierZeroBased(url) == <<[url |-> url, depth |-> 0]>>

\* Line 92: to_visit = [(start_url, 1)].
InitialFrontier(url) == <<[url |-> url, depth |-> 1]>>

\* Line 97: the entries the loop drops without a request.
ShouldSkip(entry) == entry.url \in visited_urls \/ entry.depth > max_depth

\* Lines 59-65 with the test of line 59 inverted.
ExtractTextInverted(page, url, depth) ==
    IF ~page.text THEN content \o <<[url |-> url, depth |-> depth]>> ELSE content

\* Lines 27-65: _extract_text appends a record unless the text is empty.
ExtractText(page, url, depth) ==
    IF page.text THEN content \o <<[url |-> url, depth |-> depth]>> ELSE content

RECURSIVE Enqueue(_, _, _)
\* Lines 114-116: append each link that is not in visited_urls.
Enqueue(links, seen, depth) ==
    IF links = <<>> THEN <<>>
    ELSE (IF Head(links) \notin seen
          THEN <<[url |-> Head(links), depth |-> depth]>> ELSE <<>>)
         \o Enqueue(Tail(links), seen, depth)

CrawlInit ==
    /\ start_url \in {u \in URLs : u.path = 1}
    /\ max_depth \in 1..MaxDepthArg
    /\ max_links_per_page \in 1..MaxLinksArg
    /\ to_visit = InitialFrontier(start_url)
    /\ visited_urls = {}
    /\ content = <<>>
    /\ requested = <<>>
    /\ web = [p \in Pages |-> Unknown]
    /\ cpc = "loop"

\* Lines 95-98: pop an entry that is visited or too deep and continue.
SkipEntry ==
    /\ cpc = "loop"
    /\ to_visit # <<>>
    /\ ShouldSkip(Head(to_visit))
    /\ to_visit' = Tail(to_visit)
    /\ UNCHANGED <<start_url, max_depth, max_links_per_page, visited_urls,
                   content, requested, web, cpc>>
    /\ UNCHANGED <<ingestVars, storeVars, ragVars, unitVars>>

\* Lines 121-123 with the failed entry put back at the end of the frontier.
AfterFailureRetry(frontier) == Append(Tail(frontier), Head(frontier))

\* Lines 121-123 with the exception ending the loop.
AfterFailureAbort(frontier) == <<>>

\* Lines 96, 121-123: the entry was popped before the request; the handler
\* logs and continues, so the frontier is what the pop left.
AfterFailure(frontier) == Tail(frontier)

\* Lines 95-103, 121-123: the request times out or answers an error status;
\* the exception is logged and the loop continues.
FetchFails ==
    /\ cpc = "loop"
    /\ to_visit # <<>>
    /\ ~ShouldSkip(Head(to_visit))
    /\ requested' = Append(requested, Head(to_visit))
    /\ to_visit' = AfterFailure(to_visit)
    /\ UNCHANGED <<start_url, max_depth, max_links_per_page, visited_urls,
                   content, web, cpc>>
    /\ UNCHANGED <<ingestVars, storeVars, ragVars, unitVars>>

\* Line 116 with the new entries put in front of the waiting ones.
ExtendInFront(frontier, entries) == entries \o frontier

\* Line 116: to_visit.append adds the new entries behind the waiting ones.
Extend(frontier, entries) == frontier \o entries

\* Lines 95-119: the request succeeds; the URL is marked visited, its text
\* recorded and, below the depth bound, its links appended to the frontier.
FetchSucceeds ==
    /\ cpc = "loop"
    /\ to_visit # <<>>
    /\ ~ShouldSkip(Head(to_visit))
    /\ LET url == Head(to_visit).url
           current_depth == Head(to_visit).depth
       IN \E page \in (IF web[PageOf(url)] = Unknown
                       THEN PageContents ELSE {web[PageOf(url)]}) :
            /\ web' = [web EXCEPT ![PageOf(url)] = page]
            /\ requested' = Append(requested, Head(to_visit))
            /\ visited_urls' = visited_urls \cup {url}
            /\ content' = ExtractText(page, url, current_depth)
            /\ to_visit' =
                 Extend(Tail(to_visit),
                        IF current_depth < max_depth
                        THEN Enqueue(Prefix(GetLinks(page.links, url), max_links_per_page),
                                     visited_urls \cup {url}, current_depth + 1)
                        ELSE <<>>)
    /\ UNCHANGED <<start_url, max_depth, max_links_per_page, cpc>>
    /\ UNCHANGED <<ingestVars, storeVars, ragVars, unitVars>>

\* Lines 94, 125: the frontier is empty, scrape returns self.content.
Return ==
    /\ cpc = "loop"
    /\ to_visit = <<>>
    /\ cpc' = "returned"
    /\ UNCHANGED <<start_url, max_depth, max_links_per_page, to_visit,
                   visited_urls, content, requested, web>>
    /\ UNCHANGED <<ingestVars, storeVars, ragVars, unitVars>>

CrawlNext == SkipEntry \/ FetchFails \/ FetchSucceeds \/ Return

(***************************************************************************)
(* ======================  RERANKER AND RAG GRAPH  ======================  *)
(***************************************************************************)

\* rag_graph.py line 151: the number of kept documents shown as sources.
SourcesShown == 3

\* settings.py line 21: the limit the retrieve stage hands to search.
reranker_candidates == 20

\* The empty string as a chunk text, and a document without a rerank_score key.
EmptyText == 0
NoScore == 0

\* The relevance scores the cross-encoder can return.
Scores == 1..NumScores

\* The sequences without repetition over a set, at most limit long: the
\* orders in which a search can rank some of its candidates.
Arrangements(S, limit) ==
    {q \in UNION {[1..n -> S] : n \in 0..Cardinality(S)} :
        /\ Len(q) <= limit
        /\ \A i, j \in DOMAIN q : i # j => q[i] # q[j]}

\* vector_store.py lines 106-113: the document search builds from a point.
DocOf(point) ==
    [id |-> point.id,
     text |-> point.payload["text"],
     metadata |-> [k \in (DOMAIN point.payload) \ {"text"} |-> point.payload[k]],
     rerank_score |-> NoScore]

\* reranker.py lines 23 and 47: documents[:top_k] if top_k else documents.
SliceIfTruthy(documents, top_k) ==
    IF Truthy(top_k) THEN Prefix(documents, top_k) ELSE documents

\* reranker.py lines 35-36: each document receives its score.
WithScores(documents, scores) ==
    [i \in DOMAIN documents |-> [documents[i] EXCEPT !.rerank_score = scores[i]]]

RECURSIVE InsertBeforeTies(_, _)
\* Insertion in descending order that puts a document before those of equal
\* score.
InsertBeforeTies(sorted, x) ==
    IF sorted = <<>> THEN <<x>>
    ELSE IF Head(sorted).rerank_score > x.rerank_score
         THEN <<Head(sorted)>> \o InsertBeforeTies(Tail(sorted), x)
         ELSE <<x>> \o sorted

RECURSIVE InsertAfterTies(_, _)
\* Insertion in descending order that puts a document after those of equal
\* score, as a stable sort does.
InsertAfterTies(sorted, x) ==
    IF sorted = <<>> THEN <<x>>
    ELSE IF Head(sorted).rerank_score >= x.rerank_score
         THEN <<Head(sorted)>> \o InsertAfterTies(Tail(sorted), x)
         ELSE <<x>> \o sorted

RECURSIVE SortedTiesReversed(_)
\* A descending sort that reverses the order of documents of equal score.
SortedTiesReversed(documents) ==
    IF documents = <<>> THEN <<>>
    ELSE InsertBeforeTies(SortedTiesReversed(SubSeq(documents, 1, Len(documents) - 1)),
                          documents[Len(documents)])

RECURSIVE SortedReverse(_)
\* reranker.py line 39: sorted(documents, key=rerank_score, reverse=True);
\* Python's sort is stable and reverse=True keeps the order of equal keys.
SortedReverse(documents) ==
    IF documents = <<>> THEN <<>>
    ELSE InsertAfterTies(SortedReverse(SubSeq(documents, 1, Len(documents) - 1)),
                         documents[Len(documents)])

\* reranker.py lines 16-47: rerank(query, documents, top_k) under the
\* settings; failed tells that scoring raised, scores what predict returned.
Rerank(documents, top_k, settings, failed, scores) ==
    IF ~settings.reranker_enabled
    THEN SliceIfTruthy(documents, top_k)
    ELSE LET k == IF Truthy(top_k) THEN top_k ELSE settings.reranker_top_k
         IN IF failed
            THEN SliceIfTruthy(documents, k)
            ELSE Prefix(SortedReverse(WithScores(documents, scores)), k)

\* settings.py lines 18-20: reranker_enabled and reranker_top_k, as the
\* environment sets them.
Configs == [reranker_enabled: BOOLEAN, reranker_top_k: 0..MaxTopK]

\* The documents of a rerank call: document i of the collection.
RerankDoc(i) ==
    [id |-> i,
     text |-> 1,
     metadata |-> [k \in {"session_id", "user_id"} |-> 1],
     rerank_score |-> NoScore]

NoScores(documents) == [i \in DOMAIN documents |-> NoScore]

\* No rerank call under way.
NoRerankCall ==
    [documents |-> <<>>, called |-> FALSE, failed |-> FALSE,
     scores |-> <<>>, result |-> <<>>]

RerankInit ==
    /\ config \in Configs
    /\ rr \in [documents: Arrangements({RerankDoc(i) : i \in 1..MaxRerankDocs},
                                       reranker_candidates),
               called: {FALSE}, failed: {FALSE}, scores: {<<>>}, result: {<<>>}]

\* rag_graph.py lines 69-73 with reranker.py lines 16-47: the rerank stage
\* calls rerank with top_k = settings.reranker_top_k; scoring, when the
\* reranker is enabled, returns one score per document or raises.
RerankCall ==
    /\ ~rr.called
    /\ \E failed \in BOOLEAN :
       \E scores \in [DOMAIN rr.documents -> Scores \cup {NoScore}] :
          /\ failed => config.reranker_enabled
          /\ IF config.reranker_enabled /\ ~failed
             THEN \A i \in DOMAIN scores : scores[i] \in Scores
             ELSE scores = NoScores(rr.documents)
          /\ rr' = [rr EXCEPT
                      !.called = TRUE,
                      !.failed = failed,
                      !.scores = scores,
                      !.result = Rerank(rr.documents, config.reranker_top_k,
                                        config, failed, scores)]
    /\ UNCHANGED <<config, rag>>
    /\ UNCHANGED <<ingestVars, storeVars, crawlVars, unitVars>>

RerankNext == RerankCall

\* ---- the RAG graph

\* RAGState.response: the empty string of the initial state, the fixed
\* sentence of line 108, the generator's answer, the message of line 120.
EmptyResponse == [kind |-> "empty", detail |-> "none"]
NoInformation == [kind |-> "no_relevant_information", detail |-> "none"]
Answer == [kind |-> "answer", detail |-> "none"]
GenerationError(e) == [kind |-> "generation_error", detail |-> e]

\* What embed_query or client.search can raise, and what the generator can.
SearchErrors == {"embed_query", "client_search"}
GeneratorErrors == {"llm"}

\* The chunks whose points the collection holds when a query arrives.
RagChunks == [page_content: {EmptyText, 1}, metadata: {<<>>}]

\* The point add_documents upserts for one chunk (vector_store.py lines 48-63).
PointOf(i, chunk, session_id, user_id) ==
    [id |-> i,
     payload |-> Payload(chunk, session_id, user_id),
     by_session |-> session_id,
     by_user |-> user_id,
     text |-> chunk.page_content]

\* The collections some add_documents calls of the users can have left.
Collections ==
    UNION {{{PointOf(i, c[i].chunk, 1, c[i].user_id) : i \in 1..n} :
               c \in [1..n -> [chunk: RagChunks, user_id: Vals]]} :
           n \in 0..MaxPoints}

\* Lines 131-140: the initial state of process_query, before the graph runs.
InitialState(user_id) ==
    [pc |-> "retrieve",
     user_id |-> user_id,
     retrieved_docs |-> <<>>,
     reranked_docs |-> <<>>,
     context |-> <<>>,
     response |-> EmptyResponse,
     error |-> "none",
     ran |-> {},
     search_error |-> "none",
     rerank_failed |-> FALSE,
     generator_calls |-> 0,
     generator_error |-> "none",
     result |-> [returned |-> FALSE]]

Idle == [pc |-> "idle"]

RagInit ==
    /\ config \in Configs
    /\ points \in Collections
    /\ rag = Idle

\* Lines 56-59 without line 58: the error is logged but not recorded.
OnSearchErrorUnrecorded(state, e) == [state EXCEPT !.retrieved_docs = <<>>]

\* Lines 56-59: the retrieve stage records the error and an empty list.
OnSearchError(state, e) == [state EXCEPT !.error = e, !.retrieved_docs = <<>>]

\* Line 107 without the test: the generator is called on any context.
GeneratesAlways(context) == TRUE

\* Line 107: the generator is called only on a non-empty context.
Generates(context) == context # <<>>

\* Lines 118-121 without line 121: the error is logged but not recorded.
OnGeneratorErrorUnrecorded(state, e) ==
    [state EXCEPT !.response = GenerationError(e)]

\* Lines 118-121: the generate stage turns the failure into a response and
\* records it.
OnGeneratorError(state, e) ==
    [state EXCEPT !.response = GenerationError(e), !.error = e]

RECURSIVE Texts(_)
\* Lines 86-95: the texts of the documents whose text is not empty (no point
\* here carries a source in its metadata).
Texts(documents) ==
    IF documents = <<>> THEN <<>>
    ELSE (IF Head(documents).text # EmptyText
          THEN <<Head(documents).text>> ELSE <<>>)
         \o Texts(Tail(documents))

\* Lines 146-152: the sources of the result, a preview of the text and the
\* metadata of the first kept documents.
Sources(documents) ==
    [i \in DOMAIN Prefix(documents, SourcesShown) |->
        [text |-> documents[i].text, metadata |-> documents[i].metadata]]

\* Lines 125-143: process_query(query, user_id) builds the initial state and
\* starts the graph.
ProcessQuery ==
    /\ rag.pc = "idle"
    /\ \E user_id \in UserIdArgs : rag' = InitialState(user_id)
    /\ UNCHANGED <<config, rr>>
    /\ UNCHANGED <<ingestVars, storeVars, crawlVars, unitVars>>

\* Lines 47-61 with vector_store.py lines 80-120: the retrieve stage; search
\* raises, or ranks some of the points that match the filter.
RetrieveDocuments ==
    /\ rag.pc = "retrieve"
    /\ \/ \E e \in SearchErrors :
            rag' = [OnSearchError(rag, e) EXCEPT
                      !.search_error = e,
                      !.ran = @ \cup {"retrieve"},
                      !.pc = "rerank"]
       \/ \E hits \in Arrangements(Matching(SearchFilter(rag.user_id)),
                                   reranker_candidates) :
            rag' = [rag EXCEPT
                      !.retrieved_docs = [i \in DOMAIN hits |-> DocOf(hits[i])],
                      !.ran = @ \cup {"retrieve"},
                      !.pc = "rerank"]
    /\ UNCHANGED <<config, rr>>
    /\ UNCHANGED <<ingestVars, storeVars, crawlVars, unitVars>>

\* Lines 63-81: the rerank stage; nothing to do on an empty list, else one
\* rerank call, in which scoring succeeds or raises.
RerankDocuments ==
    /\ rag.pc = "rerank"
    /\ IF rag.retrieved_docs = <<>>
       THEN rag' = [rag EXCEPT !.reranked_docs = <<>>,
                               !.ran = @ \cup {"rerank"},
                               !.pc = "prepare_context"]
       ELSE \E failed \in BOOLEAN :
            \E scores \in [DOMAIN rag.retrieved_docs -> Scores] :
               /\ failed => config.reranker_enabled
               /\ rag' = [rag EXCEPT
                            !.reranked_docs =
                                Rerank(rag.retrieved_docs, config.reranker_top_k,
                                       config, failed, scores),
                            !.rerank_failed = failed,
                            !.ran = @ \cup {"rerank"},
                            !.pc = "prepare_context"]
    /\ UNCHANGED <<config, rr>>
    /\ UNCHANGED <<ingestVars, storeVars, crawlVars, unitVars>>

\* Lines 83-103: the context is the non-empty texts of the kept documents.
PrepareContext ==
    /\ rag.pc = "prepare_context"
    /\ rag' = [rag EXCEPT !.context = Texts(rag.reranked_docs),
                          !.ran = @ \cup {"prepare_context"},
                          !.pc = "generate"]
    /\ UNCHANGED <<config, rr>>
    /\ UNCHANGED <<ingestVars, storeVars, crawlVars, unitVars>>

\* Lines 105-123 with llm_service.py lines 19-56: the generate stage; the
\* fixed sentence for an empty context, else one generator call that answers
\* or raises.
GenerateResponse ==
    /\ rag.pc = "generate"
    /\ IF ~Generates(rag.context)
       THEN rag' = [rag EXCEPT !.response = NoInformation,
                               !.ran = @ \cup {"generate"},
                               !.pc = "end"]
       ELSE \/ rag' = [rag EXCEPT !.response = Answer,
                                  !.generator_calls = @ + 1,
                                  !.ran = @ \cup {"generate"},
                                  !.pc = "end"]
            \/ \E e \in GeneratorErrors :
                 rag' = [OnGeneratorError(rag, e) EXCEPT
                           !.generator_calls = @ + 1,
                           !.generator_error = e,
                           !.ran = @ \cup {"generate"},
                           !.pc = "end"]
    /\ UNCHANGED <<config, rr>>
    /\ UNCHANGED <<ingestVars, storeVars, crawlVars, unitVars>>

\* Lines 143-154: the graph is over; process_query returns the result.
ReturnResult ==
    /\ rag.pc = "end"
    /\ rag' = [rag EXCEPT
                 !.result = [returned |-> TRUE,
                             response |-> rag.response,
                             sources |-> Sources(rag.reranked_docs),
                             error |-> rag.error],
                 !.pc = "returned"]
    /\ UNCHANGED <<config, rr>>
    /\ UNCHANGED <<ingestVars, storeVars, crawlVars, unitVars>>

RagNext ==
    \/ ProcessQuery
    \/ RetrieveDocuments
    \/ RerankDocuments
    \/ PrepareContext
    \/ GenerateResponse
    \/ ReturnResult

\* The retrieval before any query, for the specifications that do not query.
RagInitIdle ==
    /\ config = [reranker_enabled |-> TRUE, reranker_top_k |-> 1]
    /\ rr = NoRerankCall
    /\ rag = Idle

(***************************************************************************)
(* =========================  JSON PROCESSOR  ===========================  *)
(***************************************************************************)

\* The longest text of a structured chunk: one more than twice the largest
\* chunk size.
MaxTextLen == 2 * MaxChunkSize + 1

\* enhanced_json_processor.py lines 173-183: the lengths of the texts of the
\* structured chunks and the overview chunk, none of them empty.
StructuredLengths ==
    UNION {[1..n -> 1..MaxTextLen] : n \in 0..MaxStructured}

\* Line 188 without a threshold: no chunk is split again.
NeedsSplitNever(text_len, chunk_size) == FALSE

\* Line 188: a chunk is split again when it is longer than twice chunk_size.
NeedsSplit(text_len, chunk_size) == text_len > chunk_size * 2

\* Line 190 with lines 21-26: what the RecursiveCharacterTextSplitter can make
\* of a text: at least one piece, every piece non-empty and at most chunk_size
\* long (the last separator is the empty string, so any text can be cut).
SplitOutcomes(text_len, chunk_size) ==
    UNION {[1..n -> 1..chunk_size] : n \in 1..text_len}

RECURSIVE PostPass(_, _)
\* Lines 186-193: the chunk lists the post-pass can return.
PostPass(structured, chunk_size) ==
    IF structured = <<>> THEN {<<>>}
    ELSE LET first == IF NeedsSplit(Head(structured), chunk_size)
                      THEN SplitOutcomes(Head(structured), chunk_size)
                      ELSE {<<Head(structured)>>}
         IN {f \o r : f \in first, r \in PostPass(Tail(structured), chunk_size)}

\* No call of the JSON processor under way.
NoJsonCall == [called |-> FALSE]

JsonInit ==
    jp \in [chunk_size: 1..MaxChunkSize, structured: StructuredLengths,
            called: {FALSE}, final: {<<>>}]

\* Lines 161-196: process(content, metadata) on content that parses.
JsonProcess ==
    /\ ~jp.called
    /\ \E final \in PostPass(jp.structured, jp.chunk_size) :
          jp' = [jp EXCEPT !.called = TRUE, !.final = final]
    /\ UNCHANGED <<conv, pool>>
    /\ UNCHANGED <<ingestVars, storeVars, crawlVars, ragVars>>

JsonNext == JsonProcess

(***************************************************************************)
(* ===================  URL PROCESSOR: PAGES TO CHUNKS  =================  *)
(***************************************************************************)

Titles == Vals

\* pipeline.py lines 139-144: the metadata process_url hands to
\* URLProcessor.process; "url" is the URL of the request, the seed.
UrlMetadata(document_id, url, session_id, depth) ==
    [k \in {"document_id", "url", "session_id", "max_depth"} |->
        CASE k = "document_id" -> document_id
          [] k = "url"         -> url
          [] k = "session_id"  -> session_id
          [] k = "max_depth"   -> depth]

\* url_processor.py lines 59-65: one record of URLScraper.content.
PageRecords == [url: URLs, title: Titles, depth: 1..MaxDepthArg]

\* What scrape(seed) with max_depth = depth can return: records of pages of the
\* seed's host, one per URL, in order of depth, the seed alone at depth 1, the
\* others under the URLs _get_links made of their links.
ScrapeResults(seed, depth) ==
    {c \in UNION {[1..n -> PageRecords] : n \in 0..2} :
        /\ \A i \in DOMAIN c :
              /\ Netloc(c[i].url) = Netloc(seed)
              /\ c[i].depth <= depth
              /\ (c[i].depth = 1) => (c[i].url = seed /\ i = 1)
              /\ (c[i].depth > 1) => (c[i].url # seed /\ c[i].url = UrlDefrag(c[i].url))
        /\ \A i, j \in DOMAIN c :
              i < j => (c[i].url # c[j].url /\ c[i].depth <= c[j].depth)}

\* Lines 161-167: {'source', 'url', 'title', 'depth', **(metadata or {})}.
DocMetadata(item, metadata) ==
    DictMerge([k \in {"source", "url", "title", "depth"} |->
                  CASE k = "source" -> item.url
                    [] k = "url"    -> item.url
                    [] k = "title"  -> item.title
                    [] k = "depth"  -> item.depth],
              metadata)

RECURSIVE SplitDocuments(_, _, _, _)
\* Line 175: split_documents gives every piece the metadata of its document;
\* pieces[i] is the number of pieces of the i-th document.
SplitDocuments(items, metadata, pieces, i) ==
    IF i > Len(items) THEN <<>>
    ELSE [n \in 1..pieces[i] |->
             [item |-> i, metadata |-> DocMetadata(items[i], metadata)]]
         \o SplitDocuments(items, metadata, pieces, i + 1)

\* No conversion under way.
NoConversion == [called |-> FALSE]

ConvInit ==
    \E seed \in URLs, depth \in 1..MaxDepthArg, session_id \in Vals, d \in Docs :
    \E items \in ScrapeResults(seed, depth) :
        conv = [called |-> FALSE,
                metadata |-> UrlMetadata(d, seed, session_id, depth),
                content |-> items,
                chunks |-> <<>>]

\* Lines 158-178: URLProcessor.process after the crawl has returned.
ConvertContent ==
    /\ ~conv.called
    /\ \E pieces \in [DOMAIN conv.content -> 1..MaxPieces] :
          conv' = [conv EXCEPT
                      !.called = TRUE,
                      !.chunks = SplitDocuments(conv.content, conv.metadata, pieces, 1)]
    /\ UNCHANGED <<jp, pool>>
    /\ UNCHANGED <<ingestVars, storeVars, crawlVars, ragVars>>

ConvNext == ConvertContent

(***************************************************************************)
(* ====================  URL PROCESSOR: CRAWL WORKER  ===================  *)
(***************************************************************************)

\* Line 136: ThreadPoolExecutor(max_workers=1).
max_workers == 1

\* The crawls handed to one URLProcessor.
Jobs == 1..NumJobs

\* The site the crawls of the worker read: the pages of one host, each with at
\* most one link, relative and without fragment; ok is whether the request for
\* the page succeeds.
SitePages == {1} \X Paths
SiteHrefs == [host: {0}, path: Paths, frag: {0}]
SitePageContents ==
    [links: UNION {[1..n -> SiteHrefs] : n \in 0..1}, text: BOOLEAN, ok: {TRUE}]
    \cup {[links |-> <<>>, text |-> FALSE, ok |-> FALSE]}
Sites == [SitePages -> SitePageContents]

\* Lines 149-156: the arguments of one _run_scraper call.
CrawlArgs ==
    [start_url: {[host |-> 1, path |-> p, frag |-> 0] : p \in Paths},
     max_depth: 1..MaxDepthArg,
     max_links_per_page: {MaxLinksArg}]

\* A URLScraper that starts from what the scraper before it left behind.
SharedState(left) == [visited_urls |-> left.visited_urls, content |-> left.content]

\* Lines 18-19 with line 140: every _run_scraper call builds its own
\* URLScraper, with an empty visited set and an empty content list, whatever
\* the scraper before it left behind.
OwnedState(left) == [visited_urls |-> {}, content |-> <<>>]

\* Line 140 and line 92: the scraper of a call as its loop begins.
NewScraper(a, left) ==
    [to_visit |-> InitialFrontier(a.start_url),
     visited_urls |-> OwnedState(left).visited_urls,
     content |-> OwnedState(left).content]

\* Line 97 for a scraper s: the head of the frontier is fetched.
Requests(s, a) ==
    /\ Head(s.to_visit).url \notin s.visited_urls
    /\ Head(s.to_visit).depth <= a.max_depth

\* Lines 94-123: one pass of the loop of scrape for a scraper s on a site.
ScrapeStep(s, a, site) ==
    LET entry == Head(s.to_visit)
        page == site[PageOf(entry.url)]
        seen == s.visited_urls \cup {entry.url}
    IN IF ~Requests(s, a) THEN [s EXCEPT !.to_visit = Tail(s.to_visit)]
       ELSE IF ~page.ok THEN [s EXCEPT !.to_visit = AfterFailure(s.to_visit)]
       ELSE [to_visit |->
                Extend(Tail(s.to_visit),
                       IF entry.depth < a.max_depth
                       THEN Enqueue(Prefix(GetLinks(page.links, entry.url),
                                           a.max_links_per_page),
                                    seen, entry.depth + 1)
                       ELSE <<>>),
             visited_urls |-> seen,
             content |-> IF page.text
                         THEN Append(s.content, [url |-> entry.url, depth |-> entry.depth])
                         ELSE s.content]

RECURSIVE Scrape(_, _, _)
\* Lines 82-125: the scraper as scrape returns, started from s.
Scrape(s, a, site) ==
    IF s.to_visit = <<>> THEN s ELSE Scrape(ScrapeStep(s, a, site), a, site)

\* The scraper of a crawl that is the only one the process ever runs.
ScrapeAlone(a, site) ==
    Scrape([to_visit |-> InitialFrontier(a.start_url),
            visited_urls |-> {}, content |-> <<>>], a, site)

\* The crawls of the worker that are executing.
Running == {j \in Jobs : pool.st[j] = "running"}

\* An executor that starts a call whenever one is queued.
WorkerAlwaysFree(running) == TRUE

\* Line 136: the executor runs a queued call when one of its max_workers
\* threads is free.
WorkerFree(running) == Cardinality(running) < max_workers

\* No scraper has been built yet.
NoScraperState == [to_visit |-> <<>>, visited_urls |-> {}, content |-> <<>>]

WorkerInit ==
    \E site \in Sites, args \in [Jobs -> CrawlArgs] :
        pool = [idle |-> FALSE,
                site |-> site,
                args |-> args,
                st |-> [j \in Jobs |-> "new"],
                queue |-> <<>>,
                scr |-> [j \in Jobs |-> NoScraperState],
                left |-> NoScraperState,
                log |-> <<>>,
                waited |-> {}]

\* Lines 149-156: process hands _run_scraper to the executor and awaits it.
\* waited records the calls that were queued while another was executing.
Submit(j) ==
    /\ pool.st[j] = "new"
    /\ pool' = [pool EXCEPT
                   !.st[j] = "queued",
                   !.queue = Append(@, j),
                   !.waited = IF Running # {} THEN @ \cup {j} ELSE @]
    /\ UNCHANGED <<jp, conv>>
    /\ UNCHANGED <<ingestVars, storeVars, crawlVars, ragVars>>

\* Lines 138-141 and 92: a free thread of the executor takes the oldest queued
\* call, builds its URLScraper and enters scrape.
StartCrawl ==
    /\ pool.queue # <<>>
    /\ WorkerFree(Running)
    /\ LET j == Head(pool.queue)
       IN pool' = [pool EXCEPT
                      !.st[j] = "running",
                      !.queue = Tail(@),
                      !.scr[j] = NewScraper(pool.args[j], pool.left)]
    /\ UNCHANGED <<jp, conv>>
    /\ UNCHANGED <<ingestVars, storeVars, crawlVars, ragVars>>

\* Lines 94-123: one pass of the loop of the crawl j; log records which crawl
\* made each request.
CrawlStep(j) ==
    /\ pool.st[j] = "running"
    /\ pool.scr[j].to_visit # <<>>
    /\ pool' = [pool EXCEPT
                   !.scr[j] = ScrapeStep(@, pool.args[j], pool.site),
                   !.log = IF Requests(pool.scr[j], pool.args[j])
                           THEN Append(@, j) ELSE @]
    /\ UNCHANGED <<jp, conv>>
    /\ UNCHANGED <<ingestVars, storeVars, crawlVars, ragVars>>

\* Line 125: scrape returns self.content and the thread is free again.
FinishCrawl(j) ==
    /\ pool.st[j] = "running"
    /\ pool.scr[j].to_visit = <<>>
    /\ pool' = [pool EXCEPT
                   !.st[j] = "done",
                   !.left = pool.scr[j]]
    /\ UNCHANGED <<jp, conv>>
    /\ UNCHANGED <<ingestVars, storeVars, crawlVars, ragVars>>

WorkerNext ==
    \/ \E j \in Jobs : Submit(j)
    \/ StartCrawl
    \/ \E j \in Jobs : CrawlStep(j)
    \/ \E j \in Jobs : FinishCrawl(j)

\* The crawl worker before any crawl is submitted.
NoPool == [idle |-> TRUE]

\* The single-call models before any call, for the other specifications.
UnitInitIdle ==
    /\ jp = NoJsonCall
    /\ conv = NoConversion
    /\ pool = NoPool

\* The crawler before any scrape call, for the specifications that do not crawl.
CrawlInitIdle ==
    /\ start_url = [host |-> 1, path |-> 1, frag |-> 0]
    /\ max_depth = 1
    /\ max_links_per_page = 1
    /\ to_visit = <<>>
    /\ visited_urls = {}
    /\ content = <<>>
    /\ requested = <<>>
    /\ web = [p \in Pages |-> Unknown]
    /\ cpc = "returned"

\* The coordinator with no ingestion dispatched, for the other specifications.
IngestInitIdle ==
    /\ doc = [d \in Docs |-> [kind |-> "text", suffix |-> ".txt",
                             content |-> "invalid_json", exists |-> FALSE,
                             max_depth |-> PyNone]]
    /\ pc = [d \in Docs |-> "done"]
    /\ status = [d \in Docs |-> "pending"]
    /\ errmsg = [d \in Docs |-> "none"]
    /\ exc = [d \in Docs |-> "none"]
    /\ stepExc = [d \in Docs |-> "none"]
    /\ chunks = [d \in Docs |-> "none"]
    /\ indexed = [d \in Docs |-> FALSE]
    /\ tmpfile = [d \in Docs |-> FALSE]
    /\ processor = [d \in Docs |-> "none"]
    /\ scraper = [d \in Docs |-> NoScraper]

(***************************************************************************)
(* ==========================  SPECIFICATIONS  ==========================  *)
(***************************************************************************)

InitIngest == IngestInit /\ StoreInit /\ CrawlInitIdle /\ RagInitIdle /\ UnitInitIdle
SpecIngest == InitIngest /\ [][IngestNext]_vars

InitStore == IngestInitIdle /\ StoreInit /\ CrawlInitIdle /\ RagInitIdle /\ UnitInitIdle
SpecStore == InitStore /\ [][StoreNext]_vars

InitCrawl == IngestInitIdle /\ StoreInit /\ CrawlInit /\ RagInitIdle /\ UnitInitIdle
SpecCrawl == InitCrawl /\ [][CrawlNext]_vars

InitRerank ==
    /\ IngestInitIdle /\ StoreInit /\ CrawlInitIdle
    /\ RerankInit
    /\ rag = Idle
    /\ UnitInitIdle
SpecRerank == InitRerank /\ [][RerankNext]_vars

InitRag ==
    /\ IngestInitIdle /\ CrawlInitIdle
    /\ lastQuery = [called |-> FALSE]
    /\ RagInit
    /\ rr = NoRerankCall
    /\ UnitInitIdle
SpecRag == InitRag /\ [][RagNext]_vars

InitJson ==
    /\ IngestInitIdle /\ StoreInit /\ CrawlInitIdle /\ RagInitIdle
    /\ JsonInit
    /\ conv = NoConversion
    /\ pool = NoPool
SpecJson == InitJson /\ [][JsonNext]_vars

InitConv ==
    /\ IngestInitIdle /\ StoreInit /\ CrawlInitIdle /\ RagInitIdle
    /\ ConvInit
    /\ jp = NoJsonCall
    /\ pool = NoPool
SpecConv == InitConv /\ [][ConvNext]_vars

InitWorker ==
    /\ IngestInitIdle /\ StoreInit /\ CrawlInitIdle /\ RagInitIdle
    /\ WorkerInit
    /\ jp = NoJsonCall
    /\ conv = NoConversion
SpecWorker == InitWorker /\ [][WorkerNext]_vars

\* The crawl as the interpreter runs it: the loop of scrape is never suspended
\* for ever while it has a step to take.
SpecCrawlLive == InitCrawl /\ [][CrawlNext]_vars /\ WF_vars(CrawlNext)

(***************************************************************************)
(* ==============================  CLAIMS  ==============================  *)
(***************************************************************************)

Finished(d) == pc[d] \in {"done", "raised"}

\* C1: for every document that exists when process_file_from_path or
\* process_url is invoked, the committed status once the call is over is
\* "completed" or "failed", whatever fails on the way (reading, routing,
\* chunking, embedding, upsert, a status commit, the file's deletion).
C1_TerminalStatusAfterCall ==
    \A d \in Docs :
        (Finished(d) /\ doc[d].exists) => status[d] \in {"completed", "failed"}

\* C2: the committed status only moves pending -> processing,
\* processing -> completed or processing -> failed, and once it is completed
\* or failed no later step of the ingestion changes it.
C2_StatusTransitions ==
    [][\A d \in Docs :
         status'[d] # status[d] =>
            /\ <<status[d], status'[d]>> \in
                  {<<"pending", "processing">>,
                   <<"processing", "completed">>,
                   <<"processing", "failed">>}
            /\ status[d] \notin {"completed", "failed"}]_vars

\* C3: a document is "completed" only after its chunks were produced and
\* add_documents returned normally for them.
C3_CompletedOnlyAfterIndexed ==
    \A d \in Docs :
        status[d] = "completed" => (chunks[d] # "none" /\ indexed[d])

C3_Witness ==
    \E d \in Docs : pc[d] = "done" /\ status[d] = "completed" /\ indexed[d]

\* C4: if a step of an ingestion (routing, extraction, chunking, embedding,
\* upsert) raises, the document ends "failed" with error_message equal to that
\* exception's message, and no exception leaves the coordinator.
C4_StepFailureRecorded ==
    \A d \in Docs :
        (Finished(d) /\ stepExc[d] # "none") =>
            /\ status[d] = "failed"
            /\ errmsg[d] = stepExc[d]
            /\ pc[d] = "done"

\* C5: every document retrieved for process_query(query, user_id) has payload
\* user_id equal to that user_id, for every user_id value process_query and
\* search accept and any mixture of points upserted by several users.
C5_HitsBelongToUser ==
    lastQuery.called =>
        \A h \in lastQuery.hits : h.payload["user_id"] = lastQuery.user_id

\* C6: every point upserted by add_documents(documents, session_id, user_id)
\* has payload user_id, session_id and text equal to the call's user_id, the
\* call's session_id and the chunk's text, whatever the chunk's metadata holds.
C6_PayloadCarriesCallArguments ==
    \A p \in points :
        /\ p.payload["user_id"] = p.by_user
        /\ p.payload["session_id"] = p.by_session
        /\ p.payload["text"] = p.text

\* C7: in a crawl with max_depth = d every page record has 1 <= depth <= d and
\* no URL is requested at a depth greater than d.
C7_DepthWithinBound ==
    /\ \A i \in DOMAIN content :
          1 <= content[i].depth /\ content[i].depth <= max_depth
    /\ \A i \in DOMAIN requested : requested[i].depth <= max_depth

\* A finished crawl of depth >= 2 with a page at the deepest level whose own
\* same-host links were left alone.
C7_Witness ==
    /\ cpc = "returned"
    /\ max_depth >= 2
    /\ \E i \in DOMAIN content :
          /\ content[i].depth = max_depth
          /\ GetLinks(web[PageOf(content[i].url)].links, content[i].url) # <<>>

\* C8 as stated: whenever the fetch of the seed succeeds, the records hold one
\* of depth 1, for every content the seed page can have.
C8_SeedAlwaysRecorded ==
    start_url \in visited_urls =>
        \E i \in DOMAIN content : content[i].depth = 1

\* C8 as amended: whenever the fetch of the seed succeeds and the text
\* extracted from the seed page is not empty, the records hold the seed's
\* record at depth 1.
C8_SeedRecordedWhenText ==
    (start_url \in visited_urls /\ web[PageOf(start_url)].text) =>
        \E i \in DOMAIN content :
            content[i].depth = 1 /\ content[i].url = start_url

C8_Witness ==
    /\ cpc = "returned"
    /\ start_url \in visited_urls
    /\ web[PageOf(start_url)].text
    /\ Len(content) >= 2
    /\ content[1] = [url |-> start_url, depth |-> 1]

\* C9: within one crawl no URL is requested twice, URLs compared after
\* fragment stripping, for any link graph, seed and pattern of failures.
C9_NoDuplicateRequests ==
    \A i, j \in DOMAIN requested :
        i < j => UrlDefrag(requested[i].url) # UrlDefrag(requested[j].url)

\* C10: every URL requested during a crawl has the seed URL's network
\* location, at any depth.
C10_FetchedOnSeedHost ==
    \A i \in DOMAIN requested : Netloc(requested[i].url) = Netloc(start_url)

\* A finished crawl that went two links deep and met a link to another host
\* on a page that was not the seed.
C10_Witness ==
    /\ cpc = "returned"
    /\ \E i \in DOMAIN requested : requested[i].depth >= 3
    /\ \E i \in DOMAIN requested :
          /\ requested[i].depth >= 2
          /\ web[PageOf(requested[i].url)] # Unknown
          /\ \E k \in DOMAIN web[PageOf(requested[i].url)].links :
                web[PageOf(requested[i].url)].links[k].host
                    \notin {0, Netloc(start_url)}

RECURSIVE Weight(_)
\* The most requests a frontier entry of depth d can still cause: its own and
\* those of at most max_links_per_page entries one level deeper.
Weight(d) ==
    IF d >= max_depth THEN 1 ELSE 1 + max_links_per_page * Weight(d + 1)

RECURSIVE SumWeights(_)
SumWeights(frontier) ==
    IF frontier = <<>> THEN 0
    ELSE Weight(Head(frontier).depth) + SumWeights(Tail(frontier))

\* The steps the loop of scrape can still take.
Rank == (IF cpc = "loop" THEN 1 ELSE 0) + SumWeights(to_visit)

\* The number of requests that ended in the exception handler.
Failures == Len(requested) - Cardinality(visited_urls)

\* C11: every crawl terminates: each step of the loop lowers a natural-number
\* bound on the steps still to come, whatever cycles and self-links the pages
\* hold and whichever requests fail, and scrape eventually returns.
C11_CrawlTerminates ==
    /\ [][Rank' < Rank /\ Rank' >= 0]_vars
    /\ <>(cpc = "returned")

\* A finished crawl that met a link back to a page it had already visited
\* and a failed request.
C11_Witness ==
    /\ cpc = "returned"
    /\ Failures >= 1
    /\ \E u \in visited_urls :
          \E k \in DOMAIN GetLinks(web[PageOf(u)].links, u) :
              GetLinks(web[PageOf(u)].links, u)[k] \in visited_urls

SeedLinks ==
    {GetLinks(web[PageOf(start_url)].links, start_url)[k] :
        k \in DOMAIN GetLinks(web[PageOf(start_url)].links, start_url)}

\* A finished crawl of depth 2 without a failed request, every fetched page
\* with text, the seed carrying at most max_links_per_page links.
DepthTwoScenario ==
    /\ cpc = "returned"
    /\ max_depth = 2
    /\ Failures = 0
    /\ \A u \in visited_urls : web[PageOf(u)].text
    /\ Len(web[PageOf(start_url)].links) <= max_links_per_page

\* The records are one for the seed at depth 1 and one at depth 2 for each
\* URL of links, and the visited set is the seed and links.
ScenarioResult(links) ==
    /\ Len(content) = 1 + Cardinality(links)
    /\ content[1] = [url |-> start_url, depth |-> 1]
    /\ \A l \in links :
          \E i \in DOMAIN content : content[i] = [url |-> l, depth |-> 2]
    /\ visited_urls = {start_url} \cup links

\* C13 as stated: in the depth-2 scenario the result holds the seed's record
\* at depth 1 and one record at depth 2 for every distinct same-host link found
\* on the seed, a link to the seed itself included.
C13_DepthTwoRecordsEveryLink ==
    DepthTwoScenario => ScenarioResult(SeedLinks)

\* C13 as amended: in the depth-2 scenario the result is exactly one record
\* for the seed at depth 1 plus exactly one record at depth 2 for each distinct
\* same-host link found on the seed other than the seed URL itself, and the
\* visited set is the seed and those links.
C13_DepthTwoRecordsOtherLinks ==
    DepthTwoScenario => ScenarioResult(SeedLinks \ {start_url})

\* The scenario with two distinct links on the seed.
C13_Witness ==
    /\ DepthTwoScenario
    /\ Cardinality(SeedLinks \ {start_url}) = 2
    /\ Len(content) = 3

Stages == {"retrieve", "rerank", "prepare_context", "generate"}

\* C14: if the search of the retrieve stage raises, the stage records the
\* message as the state's error with an empty retrieved list, all four stages
\* run, and process_query returns a non-empty response, no sources and the
\* message as the result's error.
C14_SearchFailureDegrades ==
    (rag.pc # "idle" /\ rag.search_error # "none") =>
        /\ rag.retrieved_docs = <<>>
        /\ rag.pc = "rerank" => rag.error = rag.search_error
        /\ rag.pc = "returned" =>
              /\ rag.ran = Stages
              /\ rag.result.returned
              /\ rag.result.response # EmptyResponse
              /\ rag.result.sources = <<>>
              /\ rag.result.error = rag.search_error

\* A query that returned after its search failed over a collection with points.
C14_Witness ==
    /\ rag.pc = "returned"
    /\ rag.search_error # "none"
    /\ points # {}

\* The position of a document in the list handed to rerank.
PosIn(documents, id) == CHOOSE i \in DOMAIN documents : documents[i].id = id

\* C15: with the reranker enabled and scoring successful, rerank returns
\* min(K, |documents|) of the documents, each with its score, those of the
\* highest scores, in descending order of score, documents of equal score in
\* their order of retrieval.
C15_TopKStableDescending ==
    (rr.called /\ config.reranker_enabled /\ ~rr.failed) =>
        LET D == rr.documents
            R == rr.result
            K == config.reranker_top_k
            Kept == {R[i].id : i \in DOMAIN R}
        IN /\ Len(R) = (IF K < Len(D) THEN K ELSE Len(D))
           /\ \A i \in DOMAIN R :
                 \E j \in DOMAIN D :
                     R[i] = [D[j] EXCEPT !.rerank_score = rr.scores[j]]
           /\ \A i, j \in DOMAIN R :
                 i < j =>
                    /\ R[i].id # R[j].id
                    /\ R[i].rerank_score >= R[j].rerank_score
                    /\ R[i].rerank_score = R[j].rerank_score =>
                          PosIn(D, R[i].id) < PosIn(D, R[j].id)
           /\ \A j \in DOMAIN D :
                 D[j].id \notin Kept =>
                    \A i \in DOMAIN R :
                        /\ rr.scores[j] <= R[i].rerank_score
                        /\ rr.scores[j] = R[i].rerank_score =>
                              PosIn(D, R[i].id) < j

\* A successful rerank of three documents to two, in which two documents have
\* the same score and only the earlier one is kept.
C15_Witness ==
    /\ rr.called /\ config.reranker_enabled /\ ~rr.failed
    /\ Len(rr.documents) = 3
    /\ Len(rr.result) = 2
    /\ \E i, j \in DOMAIN rr.documents :
          /\ i < j
          /\ rr.scores[i] = rr.scores[j]
          /\ rr.result[2].id = rr.documents[i].id
          /\ \A k \in DOMAIN rr.result : rr.result[k].id # rr.documents[j].id

\* C16: with the reranker disabled, rerank returns exactly the first K
\* elements of documents in their order, for every configured K, 0 and K
\* above the number of documents included.
C16_DisabledReturnsFirstK ==
    (rr.called /\ ~config.reranker_enabled) =>
        rr.result = Prefix(rr.documents, config.reranker_top_k)

\* C17: if scoring fails, the rerank stage puts out exactly the first K
\* retrieved documents in their order and sets no error, and the context and
\* generate stages still run.
C17_ScoringFailureKeepsFirstK ==
    (rag.pc # "idle" /\ rag.rerank_failed) =>
        /\ rag.reranked_docs = Prefix(rag.retrieved_docs, config.reranker_top_k)
        /\ rag.pc = "prepare_context" => rag.error = "none"
        /\ rag.pc = "returned" => rag.ran = Stages

\* C18: on an empty context the generate stage answers with the fixed
\* sentence and the generator is not called; a query of a user none of whose
\* vectors are in the collection, its search not failing, returns the fixed
\* sentence, no sources and no error.
C18_EmptyContextShortCircuits ==
    /\ (rag.pc \in {"end", "returned"} /\ rag.context = <<>>) =>
          /\ rag.response = NoInformation
          /\ rag.generator_calls = 0
    /\ (/\ rag.pc = "returned"
        /\ rag.user_id \in Vals
        /\ rag.search_error = "none"
        /\ \A p \in points : p.payload["user_id"] # rag.user_id) =>
          /\ rag.result.response = NoInformation
          /\ rag.result.sources = <<>>
          /\ rag.result.error = "none"

\* A query of a user without vectors that returned, over a collection
\* that holds another user's vectors.
C18_Witness ==
    /\ rag.pc = "returned"
    /\ rag.user_id \in Vals
    /\ rag.search_error = "none"
    /\ points # {}
    /\ \A p \in points : p.payload["user_id"] # rag.user_id
    /\ rag.result.response = NoInformation

\* C19: if the generator call fails, process_query returns a result whose
\* response is the error message with the failure's detail, whose error is the
\* failure's message and whose sources are those of the kept documents.
C19_GeneratorFailureReported ==
    (rag.pc = "returned" /\ rag.generator_error # "none") =>
        /\ rag.result.returned
        /\ rag.result.response = GenerationError(rag.generator_error)
        /\ rag.result.error = rag.generator_error
        /\ rag.result.sources = Sources(rag.reranked_docs)
        /\ rag.result.sources # <<>>

\* A query that returned after its generator call failed on two kept documents.
C19_Witness ==
    /\ rag.pc = "returned"
    /\ rag.generator_error # "none"
    /\ Len(rag.result.sources) = 2

\* The processor a content type names.
ProcessorNamed(content_type) ==
    CASE content_type = "pdf" -> "pdf_processor"
      [] content_type = "json" -> "json_processor"
      [] content_type = "url" -> "url_processor"
      [] OTHER -> "text_processor"

\* The processor the filename and the content select when no content type
\* decides: the PDF processor for a name ending in .pdf, else the JSON
\* converter for content that parses, else the plain-text chunker.
ProcessorByHeuristic(d) ==
    IF Lower(d.suffix) = ".pdf" THEN "pdf_processor"
    ELSE IF d.content = "valid_json" THEN "json_processor"
    ELSE "text_processor"

\* C20: the processor an uploaded document is handed to is the one its
\* recorded content type names, or, where the content type does not count as
\* recorded, the one the filename and the content select.
C20_ProcessorFollowsDispatchRule ==
    \A d \in Docs :
        (processor[d] # "none" /\ doc[d].kind # "url") =>
            processor[d] \in {ProcessorNamed(ContentTypeOf(doc[d].suffix)),
                              ProcessorByHeuristic(doc[d])}

\* C21: for a document whose content is not valid JSON and which the JSON
\* processor chunked by its plain-text fallback, the fallback's chunks are
\* indexed, no step of the ingestion raises, and the document ends
\* "completed" unless a status commit or the file's deletion fails.
C21_InvalidJsonFallsBackToText ==
    \A d \in Docs :
        (/\ Finished(d)
         /\ processor[d] = "json_processor"
         /\ doc[d].content = "invalid_json"
         /\ chunks[d] = "strings"
         /\ stepExc[d] \notin {"embed", "upsert"}) =>
            /\ indexed[d]
            /\ stepExc[d] = "none"
            /\ \/ status[d] = "completed"
               \/ pc[d] = "raised"
               \/ errmsg[d] \in {"commit", "unlink"}

\* C27: once process_file_from_path is over, the temporary file of the upload
\* no longer exists, whichever way the ingestion went.
C27_TempFileDeletedOnEveryExit ==
    \A d \in Docs :
        (Finished(d) /\ doc[d].kind # "url") => ~tmpfile[d]

\* C26: the frontier never holds two entries for the same URL.
C26_FrontierHoldsNoDuplicates ==
    \A i, j \in DOMAIN to_visit :
        i < j => to_visit[i].url # to_visit[j].url

\* Whether the depths of a sequence of [url, depth] never decrease.
NonDecreasing(entries) ==
    \A i, j \in DOMAIN entries : i < j => entries[i].depth <= entries[j].depth

\* C30: at every step the frontier's entries are in non-decreasing depth
\* order with depths between 1 and max_depth and none below the depth of a
\* request already made, so requests are made, and page records returned, in
\* non-decreasing depth order.
C30_BreadthFirst ==
    /\ NonDecreasing(to_visit)
    /\ \A i \in DOMAIN to_visit :
          1 <= to_visit[i].depth /\ to_visit[i].depth <= max_depth
    /\ NonDecreasing(requested \o to_visit)
    /\ NonDecreasing(content)

\* A finished crawl that requested pages at three depths, two of them at
\* depth 2, and recorded pages at depths 1, 2 and 3.
C30_Witness ==
    /\ cpc = "returned"
    /\ Cardinality({i \in DOMAIN requested : requested[i].depth = 2}) >= 2
    /\ \A k \in 1..3 : \E i \in DOMAIN content : content[i].depth = k

\* Whether process_url handed document d to URLProcessor.process.
UrlProcessed(d) ==
    doc[d].kind = "url" /\ processor[d] = "url_processor" /\ pc[d] # "route"

\* C22: once process_url has called the URL processor for a request, a crawl
\* was started with the request's max_depth as its depth bound, and unless the
\* crawl, the embedding or the upsert fails the pages were chunked into
\* documents.
C22_CrawlRunsWithRequestOptions ==
    \A d \in Docs :
        UrlProcessed(d) =>
            /\ scraper[d].started
            /\ scraper[d].max_depth = doc[d].max_depth
            /\ stepExc[d] \notin {"scrape", "embed", "upsert"} =>
                  chunks[d] = "documents"

\* C23: once process_url has called the URL processor for a request that
\* omits max_depth, a crawl was started with depth bound 1.
C23_OmittedDepthMeansOne ==
    \A d \in Docs :
        (UrlProcessed(d) /\ doc[d].max_depth = PyNone) =>
            scraper[d] = [started |-> TRUE, max_depth |-> 1]

\* C24 as stated: every chunk process emits is non-empty and at most
\* chunk_size long.
C24_ChunksWithinChunkSize ==
    jp.called =>
        \A i \in DOMAIN jp.final :
            1 <= jp.final[i] /\ jp.final[i] <= jp.chunk_size

\* C24 as amended: every chunk process emits is non-empty and at most twice
\* chunk_size long, and the pieces of a chunk that was split again are at
\* most chunk_size long.
C24_ChunksWithinTwiceChunkSize ==
    jp.called =>
        /\ \A i \in DOMAIN jp.final :
              1 <= jp.final[i] /\ jp.final[i] <= 2 * jp.chunk_size
        /\ (\A i \in DOMAIN jp.structured :
               jp.structured[i] > 2 * jp.chunk_size) =>
              \A i \in DOMAIN jp.final : jp.final[i] <= jp.chunk_size

\* A call in which one chunk was longer than twice chunk_size and split, and
\* another, longer than chunk_size, was emitted as it was.
C24_Witness ==
    /\ jp.called
    /\ Len(jp.structured) = 2
    /\ jp.structured[1] > 2 * jp.chunk_size
    /\ jp.structured[2] > jp.chunk_size
    /\ jp.structured[2] <= 2 * jp.chunk_size
    /\ jp.final[Len(jp.final)] = jp.structured[2]
    /\ Len(jp.final) >= 3

FetchesOf(j) == Cardinality({i \in DOMAIN pool.log : pool.log[i] = j})

\* C28: at most one crawl executes at any time, and no request of one crawl
\* lies between two requests of another.
C28_OneCrawlAtATime ==
    /\ Cardinality(Running) <= 1
    /\ \A i, k, l \in DOMAIN pool.log :
          (i < k /\ k < l /\ pool.log[i] = pool.log[l]) => pool.log[k] = pool.log[i]

\* Two crawls that were in flight together have both finished, each after at
\* least two requests.
C28_Witness ==
    /\ \A j \in Jobs : pool.st[j] = "done" /\ FetchesOf(j) >= 2
    /\ pool.waited # {}

\* C29: whatever was crawled before and whatever is queued, a crawl returns
\* the records, and ends with the visited set, of the same crawl run alone.
C29_CrawlStateOwnedByInvocation ==
    \A j \in Jobs :
        pool.st[j] = "done" =>
            /\ pool.scr[j].content = ScrapeAlone(pool.args[j], pool.site).content
            /\ pool.scr[j].visited_urls =
                  ScrapeAlone(pool.args[j], pool.site).visited_urls

\* Two crawls of the same seed have finished one after the other, and the
\* later one requested and recorded the seed again.
C29_Witness ==
    /\ \A j \in Jobs : pool.st[j] = "done" /\ pool.scr[j].content # <<>>
    /\ \A j, k \in Jobs : pool.args[j].start_url = pool.args[k].start_url
    /\ \A j \in Jobs : pool.args[j].start_url \in pool.scr[j].visited_urls
    /\ \E j, k \in Jobs : j # k /\ pool.args[j].max_depth # pool.args[k].max_depth

====
